---------------------------- MODULE Spec2Model ----------------------------
(***************************************************************************)
(* Go-Back-N data link (frame.py, my_channel.py, my_sender.py,             *)
(* my_receiver.py, main.py).                                               *)
(*                                                                         *)
(* Bytes are the naturals 0..255 and a bytes object is a sequence of them. *)
(* All deliveries are synchronous calls: Sender.send_data and              *)
(* Sender.check_timeout call Channel.send, which calls Receiver.receive,   *)
(* which calls Channel.send again, which calls Sender.receive_ack.  One    *)
(* step of the model is one call of Channel.send by the sender together    *)
(* with everything that runs inside it; pc says where the sender's own     *)
(* handler stands between two such calls.                                  *)
(***************************************************************************)
EXTENDS Integers, Sequences, FiniteSets, TLC

(***************************************************************************)
(* Bounds of the model.                                                    *)
(***************************************************************************)
MaxSubmit == 9      \* calls of Sender.send_data in one run
MaxReply == 1       \* calls of Receiver.network_send in one run
MaxTime == 4        \* the clock stops advancing here

(***************************************************************************)
(* Program constants.                                                      *)
(***************************************************************************)
DATA == 0
ACK == 1
MAX_SEQ == 8
window_size == 7
timeout == 2
None == -1          \* Python's None, for timer_start and ack_pending
MainLossProb == 10      \* Channel(loss_prob=0.1, ...), in percent
MainCorruptProb == 20   \* Channel(..., corrupt_prob=0.2), in percent

VARIABLES
    loss_prob, corrupt_prob,                \* Channel
    base, next_seq, buffer, timer_start,    \* Sender
    expected_seq, ack_pending, network_queue, \* Receiver
    now,                                    \* time.time()
    pc, seq, frame,                         \* the sender handler in progress
    nsubmit, nreply,                        \* calls made by the driver
    accepted, rdelivered, sdelivered,       \* what crossed the network-layer interfaces
    tx,                                     \* the frame the sender sent in the last step
    all_lost, tx_time, wire,                \* a run in which every frame was dropped
    lastRx, lastAck, lastCt,                \* the last run of each handler
    cframe, craw, cstage                    \* a frame going through the codec

protoVars == <<loss_prob, corrupt_prob, base, next_seq, buffer, timer_start,
               expected_seq, ack_pending, network_queue, now, pc, seq, frame,
               nsubmit, nreply, accepted, rdelivered, sdelivered,
               tx, all_lost, tx_time, wire, lastRx, lastAck, lastCt>>
codecVars == <<cframe, craw, cstage>>
vars == <<protoVars, codecVars>>

(***************************************************************************)
(* frame.py                                                                *)
(***************************************************************************)
Frame(frame_type, s, a, payload) ==
    [frame_type |-> frame_type, seq |-> s, ack |-> a, payload |-> payload]

\* The checks of Frame.__init__ (a ValueError otherwise).
FrameArgsOk(frame_type, s, a, payload) ==
    /\ frame_type \in {DATA, ACK}
    /\ 0 <= s /\ s <= 7
    /\ 0 <= a /\ a <= 7
    /\ Len(payload) <= 255

\* A variant of build_header: seq shifted by four bits instead of three.
build_header_Shift4(f) ==
    ((f.frame_type % 4) * 64) + ((f.seq % 8) * 16) + (f.ack % 8)

\* The three fields occupy disjoint bits, so | is +.
build_header(f) ==
    ((f.frame_type % 4) * 64) + ((f.seq % 8) * 8) + (f.ack % 8)

to_bytes_without_checksum(f) ==
    <<build_header(f), Len(f.payload)>> \o f.payload

RECURSIVE SumBytes(_)
SumBytes(data) ==
    IF data = <<>> THEN 0 ELSE Head(data) + SumBytes(Tail(data))

\* A variant of calculate_checksum: the sum modulo 255.
calculate_checksum_Mod255(data) == SumBytes(data) % 255

calculate_checksum(data) == SumBytes(data) % 256

to_bytes_all(f) ==
    LET data == to_bytes_without_checksum(f)
    IN  data \o <<calculate_checksum(data)>>

NoFrame == [frame_type |-> None, seq |-> None, ack |-> None, payload |-> <<>>]
DecodeError == [ok |-> FALSE, frame |-> NoFrame]

from_bytes(raw) ==
    IF Len(raw) < 3 THEN DecodeError
    ELSE LET header == raw[1]
             length == raw[2]
             expected_size == 1 + 1 + length + 1
         IN  IF Len(raw) # expected_size THEN DecodeError
             ELSE LET payload == SubSeq(raw, 3, 2 + length)
                      received_checksum == raw[Len(raw)]
                      calculated == calculate_checksum(SubSeq(raw, 1, Len(raw) - 1))
                  IN  IF calculated # received_checksum THEN DecodeError
                      ELSE LET frame_type == (header \div 64) % 4
                               s == (header \div 8) % 8
                               a == header % 8
                           IN  IF FrameArgsOk(frame_type, s, a, payload)
                               THEN [ok |-> TRUE, frame |-> Frame(frame_type, s, a, payload)]
                               ELSE DecodeError

(***************************************************************************)
(* my_channel.py                                                           *)
(***************************************************************************)
\* b[index] ^= 0xFF on one byte (index counted from 1 here).
corrupt(raw, index) ==
    IF Len(raw) = 0 THEN raw
    ELSE [k \in 1..Len(raw) |-> IF k = index THEN 255 - raw[k] ELSE raw[k]]

\* random.random() lies in [0, 1): "random.random() < p" can be true iff p > 0
\* and can be false iff p < 1.  An outcome is the frame's fate in Channel.send.
Outcomes(data) ==
    (IF loss_prob > 0 THEN {[lost |-> TRUE, corrupted |-> FALSE, raw |-> <<>>]} ELSE {})
    \cup
    (IF loss_prob < 100
     THEN (IF corrupt_prob > 0
           THEN {[lost |-> FALSE, corrupted |-> TRUE, raw |-> corrupt(data, i)] :
                    i \in 1..Len(data)}
           ELSE {})
          \cup
          (IF corrupt_prob < 100
           THEN {[lost |-> FALSE, corrupted |-> FALSE, raw |-> data]}
           ELSE {})
     ELSE {})

(***************************************************************************)
(* my_sender.py: the decisions of the handlers                             *)
(***************************************************************************)
\* A variant of WindowFull: > for >=.
WindowFull_OffByOne(b, n) == n > b + window_size

\* send_data's window check.
WindowFull(b, n) == n >= b + window_size

\* receive_ack's while loop: the first s in [b, n) with s mod MAX_SEQ = a
\* gives base = s + 1; without one base stays b.
RECURSIVE ScanAck(_, _, _, _)
ScanAck(new_base, b, n, a) ==
    IF new_base < n
    THEN IF new_base % MAX_SEQ = a THEN new_base + 1
         ELSE ScanAck(new_base + 1, b, n, a)
    ELSE b

\* A variant of SlideBase: the scan also looks at next_seq itself.
SlideBase_Inclusive(b, n, a) == ScanAck(b, b, n + 1, a)

\* A variant of SlideBase: base takes new_base as the loop leaves it.
SlideBase_KeepsNewBase(b, n, a) ==
    LET found == ScanAck(b, b, n, a)
    IN  IF found = b THEN n ELSE found

SlideBase(b, n, a) == ScanAck(b, b, n, a)

\* A variant of Purge: the frame at the new base is removed as well.
Purge_Inclusive(buf, b) == [k \in {j \in DOMAIN buf : j > b} |-> buf[k]]

\* del self.buffer[k] for every k < base.
Purge(buf, b) == [k \in {j \in DOMAIN buf : j >= b} |-> buf[k]]

\* A variant of TimerAfterBadAck: a running timer restarts on any arrival.
TimerAfterBadAck_Restart(ts, t) == IF ts # None THEN t ELSE ts

\* receive_ack's except branch returns before the timer is touched.
TimerAfterBadAck(ts, t) == ts

\* A variant of TimerAfterAck: a running timer is left alone.
TimerAfterAck_NoRestart(buf, t) ==
    IF DOMAIN buf = {} THEN None
    ELSE IF timer_start # None THEN timer_start ELSE t

\* receive_ack's timer management.
TimerAfterAck(buf, t) == IF DOMAIN buf = {} THEN None ELSE t

\* send_data's timer start; n is next_seq after its increment.
TimerAfterSend(b, n, ts, t) == IF b = n THEN t ELSE ts

\* check_timeout's two tests.
TimerExpired(ts, t) == ts # None /\ t - ts >= timeout

(***************************************************************************)
(* my_receiver.py: the decisions of receive                                *)
(***************************************************************************)
\* A variant of IsExpected: <= for ==.
IsExpected_OrEarlier(f, e) == f.seq <= e

IsExpected(f, e) == f.seq = e

\* A variant of AdvanceExpected: no reduction modulo 8.
AdvanceExpected_NoWrap(e) == e + 1

AdvanceExpected(e) == (e + 1) % 8

\* A variant of CumulativeAck: the next expected number, not the last received.
CumulativeAck_Next(e) == e % 8

CumulativeAck(e) == (e - 1) % 8

\* The frame Receiver.send_ack builds.
AckFrame(a) == Frame(ACK, 0, a, <<>>)

\* A variant of PiggybackFrame: the ack field left at 0.
PiggybackFrame_NoAck(pending, payload) == Frame(DATA, 0, 0, payload)

\* The frame Receiver.send_data builds.
PiggybackFrame(pending, payload) ==
    Frame(DATA, 0, IF pending # None THEN pending ELSE 0, payload)

(***************************************************************************)
(* Payloads of the driver (main.py): msg-n and reply-n.                    *)
(***************************************************************************)
Msg(n) == <<109, n>>
Reply(n) == <<114, 200 + n>>

(***************************************************************************)
(* Records of the last run of a handler; NoAck, NoRx, NoCt: it did not run *)
(* in the last step.                                                       *)
(***************************************************************************)
NoAck == [called |-> FALSE, ok |-> FALSE, corrupted |-> FALSE, ack |-> None,
          base0 |-> 0, next0 |-> 0, base1 |-> 0,
          buffer0 |-> {}, timer0 |-> None, sent |-> 0, delivered |-> <<>>]
NoRx == [called |-> FALSE, ok |-> FALSE, corrupted |-> FALSE, seq |-> None,
         exp0 |-> 0, exp1 |-> 0, pending0 |-> None, queue0 |-> <<>>, queue1 |-> <<>>,
         delivered |-> <<>>, sent |-> <<>>]
NoCt == [called |-> FALSE, armed |-> FALSE, due |-> FALSE, fired |-> FALSE,
         base0 |-> 0, next0 |-> 0, frames |-> <<>>]

\* A variant of PendingAfterSend: the acknowledgment stays pending.
PendingAfterSend_Keep(pending) == pending

\* Receiver.send_ack and Receiver.send_data end with ack_pending = None.
PendingAfterSend(pending) == None

\* A variant of Dequeue: the head of the queue is read but not removed.
Dequeue_Keep(q) == q

\* self.network_queue.pop(0) leaves the rest of the queue.
Dequeue(q) == Tail(q)

(***************************************************************************)
(* Sender.receive_ack(raw), reached through Channel.send of the receiver.  *)
(***************************************************************************)
receive_ack(o) ==
    LET d == from_bytes(o.raw)
        f == d.frame
        b1 == SlideBase(base, next_seq, f.ack)
        buf1 == Purge(buffer, b1)
        got == IF f.frame_type = DATA THEN <<f.payload>> ELSE <<>>
    IN  IF ~d.ok
        THEN /\ UNCHANGED <<base, buffer, sdelivered>>
             /\ timer_start' = TimerAfterBadAck(timer_start, now)
             /\ lastAck' = [NoAck EXCEPT !.called = TRUE, !.corrupted = o.corrupted,
                                         !.base0 = base, !.next0 = next_seq,
                                         !.base1 = base, !.buffer0 = DOMAIN buffer,
                                         !.timer0 = timer_start]
        ELSE /\ sdelivered' = sdelivered \o got
             /\ base' = b1
             /\ buffer' = buf1
             /\ timer_start' = TimerAfterAck(buf1, now)
             /\ lastAck' = [called |-> TRUE, ok |-> TRUE, corrupted |-> o.corrupted,
                            ack |-> f.ack, base0 |-> base, next0 |-> next_seq,
                            base1 |-> b1, buffer0 |-> DOMAIN buffer,
                            timer0 |-> timer_start, sent |-> 0, delivered |-> got]

\* Channel.send(raw, direction="receiver_to_sender")
SendToSender(data) ==
    \E o \in Outcomes(data) :
        IF o.lost
        THEN /\ UNCHANGED <<base, buffer, timer_start, sdelivered>>
             /\ lastAck' = NoAck
        ELSE receive_ack(o)

(***************************************************************************)
(* Receiver.receive(raw), reached through Channel.send of the sender.      *)
(***************************************************************************)
receive(o) ==
    LET d == from_bytes(o.raw)
        f == d.frame
        hit == IsExpected(f, expected_seq)
        e1 == IF hit THEN AdvanceExpected(expected_seq) ELSE expected_seq
        got == IF hit THEN <<f.payload>> ELSE <<>>
        pending == CumulativeAck(e1)
        piggy == network_queue # <<>>
        out == IF piggy THEN PiggybackFrame(pending, Head(network_queue))
               ELSE AckFrame(pending)
        q1 == IF piggy THEN Dequeue(network_queue) ELSE network_queue
    IN  IF ~d.ok
        THEN \* send_ack(): a standalone ACK if one is pending
             /\ UNCHANGED <<expected_seq, network_queue, rdelivered>>
             /\ ack_pending' = IF ack_pending = None THEN None
                               ELSE PendingAfterSend(ack_pending)
             /\ lastRx' = [NoRx EXCEPT !.called = TRUE, !.corrupted = o.corrupted,
                              !.exp0 = expected_seq, !.exp1 = expected_seq,
                              !.pending0 = ack_pending,
                              !.queue0 = network_queue, !.queue1 = network_queue,
                              !.sent = IF ack_pending = None THEN <<>>
                                       ELSE <<AckFrame(ack_pending)>>]
             /\ IF ack_pending = None
                THEN /\ UNCHANGED <<base, buffer, timer_start, sdelivered>>
                     /\ lastAck' = NoAck
                ELSE SendToSender(to_bytes_all(AckFrame(ack_pending)))
        ELSE /\ rdelivered' = rdelivered \o got
             /\ expected_seq' = e1
             /\ network_queue' = q1
             /\ ack_pending' = PendingAfterSend(pending)
             /\ lastRx' = [called |-> TRUE, ok |-> TRUE, corrupted |-> o.corrupted,
                           seq |-> f.seq, exp0 |-> expected_seq, exp1 |-> e1,
                           pending0 |-> ack_pending,
                           queue0 |-> network_queue, queue1 |-> q1,
                           delivered |-> got, sent |-> <<out>>]
             /\ SendToSender(to_bytes_all(out))

\* Channel.send(raw, direction="sender_to_receiver"), called by the sender
\* with the frame f that stands for absolute sequence number s.  While the
\* channel has dropped every frame of the run (all_lost), tx_time is the time
\* of the last transmission and wire lists the transmissions of the handler
\* in progress.
SendToReceiver(f, s) ==
    \E o \in Outcomes(to_bytes_all(f)) :
        /\ tx' = s
        /\ all_lost' = (all_lost /\ o.lost)
        /\ tx_time' = IF all_lost /\ o.lost THEN now ELSE None
        /\ wire' = IF all_lost /\ o.lost THEN Append(wire, s) ELSE <<>>
        /\ IF o.lost
           THEN /\ UNCHANGED <<expected_seq, ack_pending, network_queue, rdelivered,
                               base, buffer, timer_start, sdelivered>>
                /\ lastRx' = NoRx
                /\ lastAck' = NoAck
           ELSE receive(o)

\* What a step that transmits nothing leaves alone.
NoTransmission ==
    /\ UNCHANGED <<expected_seq, ack_pending, rdelivered, sdelivered, tx_time, all_lost>>
    /\ tx' = None
    /\ lastRx' = NoRx
    /\ lastAck' = NoAck

(***************************************************************************)
(* Sender.send_data(payload): the window check, the frame and its          *)
(* transmission; SendDataStore is the rest of the method, which runs once  *)
(* Channel.send has returned.  The n-th call carries Msg(n).               *)
(***************************************************************************)
SendData ==
    /\ pc = "idle"
    /\ nsubmit < MaxSubmit
    /\ nsubmit' = nsubmit + 1
    /\ lastCt' = NoCt
    /\ IF WindowFull(base, next_seq)
       THEN /\ UNCHANGED <<base, buffer, timer_start, network_queue, pc, frame,
                           accepted, wire>>
            /\ NoTransmission
       ELSE LET f == Frame(DATA, next_seq % 8, 0, Msg(nsubmit + 1))
            IN  /\ frame' = f
                /\ accepted' = Append(accepted, f.payload)
                /\ pc' = "send_data"
                /\ SendToReceiver(f, next_seq)
    /\ UNCHANGED <<loss_prob, corrupt_prob, next_seq, now, seq, nreply, codecVars>>

SendDataStore ==
    /\ pc = "send_data"
    /\ buffer' = [k \in DOMAIN buffer \cup {next_seq} |->
                     IF k = next_seq THEN frame ELSE buffer[k]]
    /\ next_seq' = next_seq + 1
    /\ timer_start' = TimerAfterSend(base, next_seq + 1, timer_start, now)
    /\ pc' = "idle"
    /\ frame' = NoFrame
    /\ wire' = <<>>
    /\ lastCt' = NoCt
    /\ NoTransmission
    /\ UNCHANGED <<loss_prob, corrupt_prob, base, network_queue, now, seq,
                   nsubmit, nreply, accepted, codecVars>>

(***************************************************************************)
(* Sender.check_timeout(): the two tests and the timer restart; then one   *)
(* step per turn of the retransmission loop.                               *)
(***************************************************************************)
CheckTimeout ==
    /\ pc = "idle"
    /\ lastCt' = [called |-> TRUE,
                  armed |-> timer_start # None,
                  due |-> /\ DOMAIN buffer # {}
                          /\ tx_time # None
                          /\ now - tx_time >= timeout,
                  fired |-> TimerExpired(timer_start, now),
                  base0 |-> base, next0 |-> next_seq, frames |-> DOMAIN buffer]
    /\ IF TimerExpired(timer_start, now)
       THEN /\ timer_start' = now
            /\ seq' = base
            /\ pc' = "check_timeout"
       ELSE UNCHANGED <<timer_start, seq, pc>>
    /\ NoTransmission
    /\ UNCHANGED <<loss_prob, corrupt_prob, base, next_seq, buffer, network_queue,
                   now, frame, nsubmit, nreply, accepted, wire, codecVars>>

CheckTimeoutLoop ==
    /\ pc = "check_timeout"
    /\ IF seq < next_seq
       THEN /\ seq' = seq + 1
            /\ IF seq \in DOMAIN buffer
               THEN SendToReceiver(buffer[seq], seq)
               ELSE /\ NoTransmission
                    /\ UNCHANGED <<base, buffer, timer_start, network_queue, wire>>
            /\ lastCt' = IF all_lost' THEN lastCt ELSE NoCt
            /\ UNCHANGED pc
       ELSE /\ pc' = "idle"
            /\ seq' = 0
            /\ wire' = <<>>
            /\ lastCt' = NoCt
            /\ NoTransmission
            /\ UNCHANGED <<base, buffer, timer_start, network_queue>>
    /\ UNCHANGED <<loss_prob, corrupt_prob, next_seq, now, frame, nsubmit, nreply,
                   accepted, codecVars>>

(***************************************************************************)
(* Receiver.network_send(payload); the n-th call carries Reply(n).         *)
(***************************************************************************)
network_send ==
    /\ pc = "idle"
    /\ nreply' = nreply + 1
    /\ network_queue' = Append(network_queue, Reply(nreply + 1))
    /\ lastCt' = NoCt
    /\ NoTransmission
    /\ UNCHANGED <<loss_prob, corrupt_prob, base, next_seq, buffer, timer_start,
                   now, pc, seq, frame, nsubmit, accepted, wire, codecVars>>

\* The driver calls network_send at most MaxReply times.
NetworkSend == nreply < MaxReply /\ network_send

(***************************************************************************)
(* time.time() moves on between two calls of the driver.                   *)
(***************************************************************************)
Tick ==
    /\ pc = "idle"
    /\ now < MaxTime
    /\ now' = now + 1
    /\ lastCt' = NoCt
    /\ NoTransmission
    /\ UNCHANGED <<loss_prob, corrupt_prob, base, next_seq, buffer, timer_start,
                   network_queue, pc, seq, frame, nsubmit, nreply, accepted, wire,
                   codecVars>>

(***************************************************************************)
(* Construction: Channel(lp, cp), Sender(channel), Receiver(channel).      *)
(***************************************************************************)
EmptyBuffer == [k \in {} |-> NoFrame]

Constructed(lp, cp) ==
    /\ loss_prob = lp /\ corrupt_prob = cp
    /\ base = 0 /\ next_seq = 0 /\ buffer = EmptyBuffer /\ timer_start = None
    /\ expected_seq = 0 /\ ack_pending = None /\ network_queue = <<>>
    /\ now = 0
    /\ pc = "idle" /\ seq = 0 /\ frame = NoFrame
    /\ nsubmit = 0 /\ nreply = 0
    /\ accepted = <<>> /\ rdelivered = <<>> /\ sdelivered = <<>>
    /\ tx = None /\ all_lost = TRUE /\ tx_time = None /\ wire = <<>>
    /\ lastRx = NoRx /\ lastAck = NoAck /\ lastCt = NoCt

CodecIdle == cframe = NoFrame /\ craw = <<>> /\ cstage = "none"

\* main.py: Channel(loss_prob=0.1, corrupt_prob=0.2)
Init == Constructed(MainLossProb, MainCorruptProb) /\ CodecIdle

Next ==
    \/ SendData
    \/ SendDataStore
    \/ CheckTimeout
    \/ CheckTimeoutLoop
    \/ NetworkSend
    \/ Tick

Spec == Init /\ [][Next]_vars

(***************************************************************************)
(* Scenario A: a channel that never loses and never corrupts; the driver   *)
(* of main.py: the replies are queued first, then send_data is called      *)
(* ScenarioMsgs times in a row, then check_timeout is polled forever.      *)
(***************************************************************************)
ScenarioMsgs == 9

InitA == Constructed(0, 0) /\ CodecIdle

NextA ==
    \/ nsubmit = 0 /\ NetworkSend
    \/ nsubmit < ScenarioMsgs /\ SendData
    \/ SendDataStore
    \/ nsubmit = ScenarioMsgs /\ CheckTimeout
    \/ CheckTimeoutLoop
    \/ Tick

SpecA == InitA /\ [][NextA]_vars

(***************************************************************************)
(* The codec and the channel's corruption on their own: a frame is built,  *)
(* serialized, possibly corrupted in one byte by Channel.send, and handed  *)
(* to the endpoint the direction names.  The endpoints are in the state    *)
(* that window_size calls of send_data leave when the channel dropped      *)
(* every frame: the window [0, 7) is outstanding, the receiver expects 0.  *)
(***************************************************************************)
MaxPayloadLen == 2
TestBytes == {0, 1, 128, 255}

RECURSIVE BytesUpTo(_)
BytesUpTo(n) ==
    IF n = 0 THEN {<<>>}
    ELSE LET shorter == BytesUpTo(n - 1)
         IN  shorter \cup {Append(p, b) : p \in shorter, b \in TestBytes}

WindowOutstanding ==
    /\ loss_prob = MainLossProb /\ corrupt_prob = MainCorruptProb
    /\ base = 0 /\ next_seq = window_size
    /\ buffer = [s \in 0..(window_size - 1) |-> Frame(DATA, s % 8, 0, Msg(s + 1))]
    /\ timer_start = None
    /\ expected_seq = 0 /\ ack_pending = None /\ network_queue = <<>>
    /\ now = 0
    /\ pc = "idle" /\ seq = 0 /\ frame = NoFrame
    /\ nsubmit = window_size /\ nreply = 0
    /\ accepted = [k \in 1..window_size |-> Msg(k)]
    /\ rdelivered = <<>> /\ sdelivered = <<>>
    /\ tx = None /\ all_lost = TRUE /\ tx_time = 0 /\ wire = <<>>
    /\ lastRx = NoRx /\ lastAck = NoAck /\ lastCt = NoCt

CodecInit ==
    /\ WindowOutstanding
    /\ cframe \in {Frame(t, s, a, p) : t \in {DATA, ACK}, s \in 0..7, a \in 0..7,
                                      p \in BytesUpTo(MaxPayloadLen)}
    /\ craw = <<>>
    /\ cstage = "frame"

\* Frame.to_bytes_all() by the endpoint that sends.
CodecEncode ==
    /\ cstage = "frame"
    /\ craw' = to_bytes_all(cframe)
    /\ cstage' = "sent"
    /\ UNCHANGED <<cframe, protoVars>>

\* Channel.send: raw = self.corrupt(raw), with its random index.
CodecCorrupt ==
    /\ cstage = "sent"
    /\ \E i \in 1..Len(craw) : craw' = corrupt(craw, i)
    /\ cstage' = "corrupted"
    /\ UNCHANGED <<cframe, protoVars>>

\* Channel.send: self.receiver.receive(raw)
CodecToReceiver ==
    /\ cstage \in {"sent", "corrupted"}
    /\ receive([lost |-> FALSE, corrupted |-> cstage = "corrupted", raw |-> craw])
    /\ cstage' = "received"
    /\ lastCt' = NoCt
    /\ UNCHANGED <<loss_prob, corrupt_prob, next_seq, now, pc, seq, frame, nsubmit,
                   nreply, accepted, tx, all_lost, tx_time, wire, cframe, craw>>

\* Channel.send: self.sender.receive_ack(raw)
CodecToSender ==
    /\ cstage \in {"sent", "corrupted"}
    /\ receive_ack([lost |-> FALSE, corrupted |-> cstage = "corrupted", raw |-> craw])
    /\ cstage' = "acked"
    /\ lastRx' = NoRx
    /\ lastCt' = NoCt
    /\ UNCHANGED <<loss_prob, corrupt_prob, next_seq, expected_seq, ack_pending,
                   network_queue, rdelivered, now, pc, seq, frame, nsubmit, nreply,
                   accepted, tx, all_lost, tx_time, wire, cframe, craw>>

CodecNext ==
    \/ CodecEncode
    \/ CodecCorrupt
    \/ CodecToReceiver
    \/ CodecToSender

CodecSpec == CodecInit /\ [][CodecNext]_vars

(***************************************************************************)
(* Properties.                                                             *)
(***************************************************************************)
IsPrefix(a, b) == Len(a) <= Len(b) /\ SubSeq(b, 1, Len(a)) = a

\* lo, lo + 1, ..., hi - 1
Ascending(lo, hi) == [k \in 1..(hi - lo) |-> lo + k - 1]

\* C1 (Scenario A): on a channel that never loses or corrupts, once the nine
\* calls of send_data are made and the sender has nothing left to retransmit
\* (buffer empty, timer disarmed, so that no later check_timeout does
\* anything), the receiver has delivered the nine payloads in submission
\* order and base is 9.
C1_ScenarioA ==
    (/\ nsubmit = ScenarioMsgs
     /\ pc = "idle"
     /\ DOMAIN buffer = {}
     /\ timer_start = None)
    => (/\ rdelivered = [k \in 1..ScenarioMsgs |-> Msg(k)]
        /\ base = ScenarioMsgs)

\* C2: what the receiver has passed to deliver_to_network is a prefix of what
\* Sender.send_data accepted.
C2_InOrderDelivery == IsPrefix(rdelivered, accepted)

\* A frame arrives again through a retransmission after the sequence numbers
\* have wrapped around, and the receiver rejects it.
C2_Witness ==
    /\ pc = "check_timeout"
    /\ lastRx.called /\ lastRx.ok
    /\ lastRx.delivered = <<>>
    /\ Len(rdelivered) > MAX_SEQ

\* C3: base never passes the number of payloads the receiver has delivered,
\* and every accepted frame the receiver has not delivered is still buffered.
C3_AckSound ==
    /\ base <= Len(rdelivered)
    /\ \A s \in Len(rdelivered)..(next_seq - 1) : s \in DOMAIN buffer

\* The sender, with frames outstanding, handles the ack 7 of a receiver that
\* has delivered nothing, inside send_data.
C3_Witness ==
    /\ pc = "send_data"
    /\ lastAck.called /\ lastAck.ok /\ lastAck.ack = 7
    /\ rdelivered = <<>>
    /\ next_seq > base

\* C4: 0 <= next_seq - base <= window_size in every state, between the calls
\* of Channel.send inside send_data and check_timeout included.
C4_WindowBound ==
    /\ 0 <= next_seq - base
    /\ next_seq - base <= window_size

\* An acknowledgment was handled inside check_timeout while the window was
\* full, and the window is still full.
C4_Witness ==
    /\ pc = "check_timeout"
    /\ lastAck.called /\ lastAck.ok
    /\ next_seq - base = window_size

\* C5 (Scenario B): the channel has dropped every frame, frames are
\* outstanding and at least timeout has passed since the last transmission
\* when check_timeout is called: it retransmits, and at the end of its loop
\* it has sent every frame of [base, next_seq) once, in ascending order.
C5_TimeoutRetransmits ==
    (lastCt.called /\ lastCt.due /\ all_lost)
    => (/\ lastCt.fired
        /\ pc = "check_timeout"
        /\ (seq = next_seq => wire = Ascending(lastCt.base0, lastCt.next0)))

\* C6: between two sender operations the timer is armed iff buffer is
\* non-empty.
C6_TimerInvariant ==
    pc = "idle" => ((timer_start # None) <=> (DOMAIN buffer # {}))

\* One step of C7: base never decreases, and a decoded frame whose ack equals
\* s mod 8 for no s in [base, next_seq) leaves base unchanged.
C7_Step ==
    /\ base' >= base
    /\ (/\ lastAck'.called /\ lastAck'.ok
        /\ \A s \in lastAck'.base0..(lastAck'.next0 - 1) : s % 8 # lastAck'.ack)
       => (lastAck'.base1 = lastAck'.base0 /\ base' = base)

\* C7: every step keeps base from decreasing, and a step in which an
\* unmatched ack was handled leaves base as it was.
C7_BaseMonotone == [][C7_Step]_vars

\* A decoded ack that matches nothing in a non-empty window.
C7_Witness ==
    /\ lastAck.called /\ lastAck.ok
    /\ lastAck.next0 > lastAck.base0
    /\ \A s \in lastAck.base0..(lastAck.next0 - 1) : s % 8 # lastAck.ack

\* C8: a decoded frame is delivered, once, and expected_seq advances modulo 8
\* iff its seq equals expected_seq on arrival; otherwise nothing is delivered
\* and expected_seq stays; the ack then sent is expected_seq - 1 modulo 8.
C8_ReceiverAcceptance ==
    (lastRx.called /\ lastRx.ok)
    => (/\ IF lastRx.seq = lastRx.exp0
           THEN /\ Len(lastRx.delivered) = 1
                /\ lastRx.exp1 = IF lastRx.exp0 = 7 THEN 0 ELSE lastRx.exp0 + 1
           ELSE /\ lastRx.delivered = <<>>
                /\ lastRx.exp1 = lastRx.exp0
        /\ expected_seq = lastRx.exp1
        /\ Len(lastRx.sent) = 1
        /\ (lastRx.sent[1].ack + 1) % 8 = lastRx.exp1)

\* The frame with seq 7 arrives when 7 is expected: expected_seq wraps to 0.
C8_Witness ==
    /\ lastRx.called /\ lastRx.ok
    /\ lastRx.seq = 7 /\ lastRx.exp0 = 7
    /\ expected_seq = 0

\* Scenario C: for a decoded frame the receiver transmits once: the head
\* of network_queue, removed, as a DATA frame carrying the cumulative ack if
\* the queue is non-empty, a standalone ACK (seq 0, no payload) otherwise;
\* network_send transmits nothing.
C9_State ==
    (lastRx.called /\ lastRx.ok)
    => (/\ Len(lastRx.sent) = 1
        /\ (lastRx.sent[1].ack + 1) % 8 = lastRx.exp1
        /\ lastRx.sent[1].seq = 0
        /\ IF lastRx.queue0 # <<>>
           THEN /\ lastRx.sent[1].frame_type = DATA
                /\ lastRx.sent[1].payload = Head(lastRx.queue0)
                /\ lastRx.queue1 = Tail(lastRx.queue0)
           ELSE /\ lastRx.sent[1].frame_type = ACK
                /\ lastRx.sent[1].payload = <<>>
                /\ lastRx.queue1 = <<>>
        /\ network_queue = lastRx.queue1)

C9_Step ==
    /\ C9_State'
    /\ nreply' # nreply
       => (/\ tx' = None /\ ~lastRx'.called /\ ~lastAck'.called
           /\ Len(network_queue') = Len(network_queue) + 1
           /\ sdelivered' = sdelivered)

\* C9: every step ends in a state where the receiver's last run sent exactly
\* the one frame described above, and a step of network_send sends nothing.
C9_Piggyback == [][C9_Step]_vars

\* An in-order frame arrives while a payload is queued at the receiver.
C9_Witness ==
    /\ lastRx.called /\ lastRx.ok
    /\ lastRx.seq = lastRx.exp0
    /\ lastRx.queue0 # <<>>

\* C10: the channel's corruption of any one byte of a valid frame's
\* serialization makes from_bytes fail; the receiver delivers nothing from
\* it and the sender's base does not move.
C10_CorruptionDetected ==
    /\ cstage = "corrupted" => ~from_bytes(craw).ok
    /\ (cstage = "received" /\ lastRx.corrupted)
       => (~lastRx.ok /\ lastRx.delivered = <<>> /\ rdelivered = <<>>
           /\ expected_seq = 0)
    /\ (cstage = "acked" /\ lastAck.corrupted)
       => (~lastAck.ok /\ base = 0 /\ DOMAIN buffer = 0..(window_size - 1))

\* A corrupted copy of a DATA frame that carries the expected seq and a
\* payload reaches the receiver.
C10_Witness ==
    /\ cstage = "received" /\ lastRx.corrupted
    /\ cframe.frame_type = DATA /\ cframe.seq = 0
    /\ Len(cframe.payload) = MaxPayloadLen

\* C11: the serialization of every valid frame decodes without error to a
\* frame with the same frame_type, seq, ack and payload.
C11_RoundTrip ==
    cstage = "sent"
    => /\ FrameArgsOk(cframe.frame_type, cframe.seq, cframe.ack, cframe.payload)
       /\ from_bytes(craw).ok
       /\ from_bytes(craw).frame.frame_type = cframe.frame_type
       /\ from_bytes(craw).frame.seq = cframe.seq
       /\ from_bytes(craw).frame.ack = cframe.ack
       /\ from_bytes(craw).frame.payload = cframe.payload

\* A frame with the largest seq and ack and a payload of the largest bytes
\* has been serialized.
C11_Witness ==
    /\ cstage = "sent"
    /\ cframe.seq = 7 /\ cframe.ack = 7
    /\ cframe.payload = <<255, 255>>
    /\ Len(craw) = 5

Range(s) == {s[i] : i \in DOMAIN s}

\* The payloads of the calls of send_data that were not accepted.
Rejected == {Msg(k) : k \in 1..nsubmit} \ Range(accepted)

\* No rejected payload is held by the sender or was delivered.
C12_State ==
    \A p \in Rejected :
        /\ \A k \in DOMAIN buffer : buffer[k].payload # p
        /\ frame.payload # p
        /\ p \notin Range(rdelivered)

C12_Step ==
    /\ (nsubmit' # nsubmit /\ next_seq >= base + window_size)
       => /\ tx' = None
          /\ ~lastRx'.called /\ ~lastAck'.called
          /\ Msg(nsubmit') \in Rejected'
          /\ UNCHANGED <<base, next_seq, buffer, timer_start, accepted, pc,
                         frame, expected_seq, rdelivered>>
    /\ (tx' # None)
       => /\ tx' < Len(accepted')
          /\ accepted'[tx' + 1] \notin Rejected'
    /\ C12_State'

\* C12: a call of send_data with next_seq >= base + window_size transmits
\* nothing and leaves base, next_seq, the buffer and the timer as they were;
\* its payload is not buffered and no later step transmits or delivers it.
C12_WindowFullRejects == [][C12_Step]_vars

\* After a rejected call the timer has fired and a buffered frame is being
\* retransmitted.
C12_Witness ==
    /\ Rejected # {}
    /\ pc = "check_timeout"
    /\ tx # None

\* C13: whenever no operation of the sender is in progress, the buffer's
\* keys are exactly the absolute sequence numbers base .. next_seq - 1, and
\* the frame under key s is the DATA frame with seq = s mod 8 that carries
\* the payload accepted for s.
C13_BufferInvariant ==
    pc = "idle"
    => /\ DOMAIN buffer = base..(next_seq - 1)
       /\ \A s \in DOMAIN buffer :
             /\ buffer[s].frame_type = DATA
             /\ buffer[s].seq = s % MAX_SEQ
             /\ buffer[s].payload = accepted[s + 1]

\* The window has slid past the wrap of seq and frames are outstanding.
C13_Witness ==
    /\ pc = "idle"
    /\ base > 0
    /\ next_seq > MAX_SEQ
    /\ base < next_seq

\* C14: every accepted payload is eventually delivered and acknowledged when
\* the channel is fair and check_timeout keeps being called.  With the timer
\* disarmed check_timeout returns at once, so from a state with no operation
\* in progress and timer_start = None nothing more happens unless the
\* network layer submits again: in every such state the receiver must have
\* delivered every accepted payload and the buffer must be empty.
C14_Recovery ==
    (pc = "idle" /\ timer_start = None)
    => /\ rdelivered = accepted
       /\ DOMAIN buffer = {}

C15_Step ==
    (lastAck'.called /\ ~lastAck'.ok)
    => /\ UNCHANGED <<base, next_seq, buffer, timer_start, sdelivered>>
       /\ lastAck'.delivered = <<>>
       /\ lastAck'.base1 = lastAck'.base0
       /\ lastAck'.sent = 0

\* C15: a step in which the sender is handed bytes that from_bytes rejects
\* leaves base, next_seq, the buffer and the timer as they were, delivers
\* nothing to the sender's network layer and sends nothing from receive_ack.
C15_SenderDiscards == [][C15_Step]_vars

\* A corrupted acknowledgment reaches the sender while the timer is running
\* and the clock has moved since it was started.
C15_Witness ==
    /\ lastAck.called /\ ~lastAck.ok
    /\ lastAck.timer0 # None
    /\ lastAck.timer0 < now
    /\ lastAck.buffer0 # {}

\* C16: once the receiver has delivered a frame (and so acknowledged it), a
\* frame that fails to decode makes it send one standalone ACK frame that
\* carries the last cumulative acknowledgment, (expected_seq - 1) mod 8; it
\* delivers nothing and expected_seq stays.
C16_ReAcknowledge ==
    (lastRx.called /\ ~lastRx.ok /\ rdelivered # <<>>)
    => /\ lastRx.sent = <<AckFrame((expected_seq + MAX_SEQ - 1) % MAX_SEQ)>>
       /\ lastRx.delivered = <<>>
       /\ lastRx.exp1 = lastRx.exp0

\* The step is a call of check_timeout whose two tests pass.
C17_Fires == pc = "idle" /\ lastCt'.called /\ lastCt'.fired

\* The step hands the sender a frame that decodes.
C17_Decoded == lastAck'.called /\ lastAck'.ok

C17_Step ==
    /\ C17_Decoded
       => timer_start' = IF DOMAIN buffer' = {} THEN None ELSE now
    /\ C17_Fires
       => /\ timer_start # None
          /\ now - timer_start >= timeout
          /\ timer_start' = now
    /\ (~C17_Decoded /\ ~C17_Fires) => timer_start' = timer_start
    /\ (pc = "idle" /\ lastCt'.called /\ ~lastCt'.fired)
       => /\ tx' = None
          /\ ~lastRx'.called /\ ~lastAck'.called
          /\ UNCHANGED <<base, next_seq, buffer, timer_start, pc, expected_seq,
                         ack_pending, network_queue, rdelivered, sdelivered>>

\* C17: a decoded frame handled by receive_ack sets the timer to the current
\* time when it leaves the buffer non-empty, whether or not base moved, and
\* disarms it when it leaves the buffer empty.  The timer changes at no
\* other step but a firing check_timeout, which restarts it; so
\* check_timeout fires only when timeout has elapsed since the latest such
\* frame or retransmission, and a call that does not fire sends nothing and
\* changes nothing.
C17_TimerRestart == [][C17_Step]_vars

\* A stale acknowledgment (base stays) restarts a timer that was started
\* earlier.
C17_Witness ==
    /\ lastAck.called /\ lastAck.ok
    /\ lastAck.base1 = lastAck.base0
    /\ lastAck.timer0 # None
    /\ lastAck.timer0 < now
    /\ timer_start = now

C18_Step ==
    \* the acknowledgment that comes back while send_data is transmitting
    /\ (pc = "idle" /\ pc' = "send_data" /\ lastAck'.called)
       => /\ lastAck'.next0 = next_seq
          /\ next_seq' = next_seq
          /\ next_seq \notin lastAck'.buffer0
          /\ next_seq \notin DOMAIN buffer'
          /\ base' <= next_seq
    \* the return of an accepted send_data
    /\ (pc = "send_data" /\ pc' = "idle")
       => /\ base' < next_seq'
          /\ next_seq' = next_seq + 1
          /\ next_seq \in DOMAIN buffer'
          /\ buffer'[next_seq] = frame
          /\ buffer'[next_seq].payload = accepted[next_seq']

\* C18: send_data transmits the frame before it stores it and before it
\* increments next_seq, so the acknowledgment that returns during the
\* transmission is matched against [base, next_seq) without that frame; when
\* an accepted send_data returns, base < next_seq and the buffer holds the
\* frame just sent, also when the receiver has delivered and acknowledged it.
C18_ReentrancyOrder == [][C18_Step]_vars

\* send_data has returned on a run in which every payload accepted so far
\* has been delivered and nothing is left unacknowledged but the frame just
\* sent.
C18_Witness ==
    /\ pc = "idle"
    /\ next_seq > 1
    /\ rdelivered = accepted
    /\ base = next_seq - 1
    /\ DOMAIN buffer = {next_seq - 1}
    /\ expected_seq = next_seq % MAX_SEQ

MainReplies == 4

NextMain ==
    \/ nsubmit = 0 /\ nreply < MainReplies /\ network_send
    \/ nreply = MainReplies /\ nsubmit < ScenarioMsgs /\ SendData
    \/ SendDataStore
    \/ nsubmit = ScenarioMsgs /\ CheckTimeout
    \/ CheckTimeoutLoop
    \/ Tick

SpecMain == Init /\ [][NextMain]_vars

\* The payloads given to network_send so far, in order.
Enqueued == [k \in 1..nreply |-> Reply(k)]

\* The position in Enqueued of the payload p.
ReplyIndex(p) == p[2] - 200

\* The number of payloads the receiver has taken from its queue.
Dequeued == nreply - Len(network_queue)

C20_State ==
    /\ network_queue = SubSeq(Enqueued, Dequeued + 1, nreply)
    /\ \A i \in DOMAIN sdelivered :
          /\ ReplyIndex(sdelivered[i]) \in 1..Dequeued
          /\ sdelivered[i] = Enqueued[ReplyIndex(sdelivered[i])]
    /\ \A i, j \in DOMAIN sdelivered :
          i < j => ReplyIndex(sdelivered[i]) < ReplyIndex(sdelivered[j])

C20_Step ==
    \* a decodable frame at the receiver takes the head of the queue and
    \* sends it once, in a DATA frame with seq = 0
    /\ (lastRx'.called /\ lastRx'.ok /\ network_queue # <<>>)
       => /\ Len(lastRx'.sent) = 1
          /\ lastRx'.sent[1].frame_type = DATA
          /\ lastRx'.sent[1].seq = 0
          /\ lastRx'.sent[1].payload = Head(network_queue)
          /\ network_queue' = Tail(network_queue)
    \* the queue changes by one append or by the removal of its head
    /\ network_queue' # network_queue
       => \/ nreply' = nreply + 1 /\ network_queue' = Append(network_queue, Reply(nreply'))
          \/ nreply' = nreply /\ lastRx'.called /\ network_queue # <<>>
             /\ network_queue' = Tail(network_queue)
    \* the sender delivers a payload only in the step that took it from the
    \* queue, and only from a frame that arrived uncorrupted
    /\ sdelivered' # sdelivered
       => /\ lastRx'.called /\ network_queue # <<>>
          /\ lastAck'.called /\ lastAck'.ok /\ ~lastAck'.corrupted
          /\ sdelivered' = Append(sdelivered, Head(network_queue))
    /\ (lastRx'.called /\ ~(lastAck'.called /\ lastAck'.ok))
       => sdelivered' = sdelivered
    /\ C20_State'

\* C20: a payload given to network_send leaves the queue in one piggyback
\* DATA frame with seq = 0 and is sent at no other time; what the sender
\* delivers to its network layer is a duplicate-free subsequence, in queue
\* order, of the payloads enqueued, and a payload whose frame was lost or
\* corrupted is never delivered.
C20_ReverseDirection == [][C20_Step]_vars

\* The second payload's frame did not arrive; the first and the third were
\* delivered and the fourth is still queued.
C20_Witness ==
    /\ nreply = MainReplies
    /\ sdelivered = <<Reply(1), Reply(3)>>
    /\ network_queue = <<Reply(4)>>

=============================================================================
